---------------------------- MODULE Spec2Model ----------------------------
(* Model of the org-snapshot-mirror action.                                 *)
(*                                                                          *)
(* Two state machines share the variables of this module:                   *)
(*   Spec        the batch controller (run) driving one syncRepo pipeline   *)
(*               per input name through the p-limit admission gate; every   *)
(*               awaited call of a pipeline is one action and the external  *)
(*               commands are seen through their exit status;               *)
(*   SpecRewrite createSnapshotCommits on one bare mirror, with the         *)
(*               contents of the commits and the text that git prints.      *)
EXTENDS Integers, Sequences, FiniteSets, TLC

\* ------------------------------------------------------------------ bounds
MaxRepos == 2

MaxBranches == 1

\* ---------------------------------------------------------------- universe
RepoName(k) == "repo" \o ToString(k)
RepoNames == {RepoName(k) : k \in 1..MaxRepos}

Platforms == {"cnb", "other", "gitlab"}

\* Number.parseInt(...) of max_parallel; 0 stands for every value p-limit
\* rejects (NaN, 0, negative).
MaxParallelValues == {0, 1, 2}

\* exit status of an external command as execGit reports it
ExitCodes == {0, 1}

None == "none"

\* values of the variables that hold a record before they are set
NoInputs == [unset |-> TRUE]

NoStatus == [kind |-> "none"]

NoResult == [pending |-> TRUE]

\* the target before any push was executed
NoTarget == [pushes |-> 0, refs |-> <<>>]

VARIABLES
    config,        \* the action's raw inputs
    inputs,        \* ActionInputs returned by getInputs, NoInputs before
    phase,         \* position of run()
    status,        \* what core.setFailed was called with, NoStatus if it was not
    lfsInstall,    \* exit status of `git lfs install`, -1 before it ran
    activeCount,   \* p-limit's count of running functions
    pc,            \* position of each pipeline
    tempDir,       \* syncRepo's local tempDir (0 is null)
    rmFailed,      \* per pipeline: cleanupDir logged the warning of a failed fs.rm
    removed,       \* per pipeline: the directory cleanupDir was called with (0 none)
    raised,        \* per pipeline: message of the error thrown inside try, None if none
    ret,           \* per pipeline: what syncRepo's promise settled with, NoResult before
    results,       \* Promise.all's value slots
    lfsFetch,      \* per pipeline: exit status of git lfs fetch, -1 if not run
    lfsPush,       \* per pipeline: exit status of git lfs push, -1 if not run
    todo,          \* per pipeline: branches of the for loop not yet rewritten
    pushed,        \* per pipeline: the force push to the target was executed
    cnbCalls,      \* per pipeline: number of calls of createCnbRepo made
    createResult,  \* per pipeline: the response and createResult, until the clone is through
    pushAux,       \* per pipeline: remote add or config exited non-zero, while pushToTarget's
                   \* caller has not moved on (-1 otherwise)
    \* the mirror that createSnapshotCommits works on (SpecRewrite)
    refs,          \* the mirror's refs: ref -> the commit it points to
    orig,          \* refs as they were when createSnapshotCommits was called
    rpc,           \* position of createSnapshotCommits
    branches,      \* the BranchInfo list that listBranches returned
    cur,           \* index in branches of the branch of the current iteration
    commitInfo,    \* the CommitInfo read in the current iteration
    newCommitHash, \* the commit made in the current iteration
    rwError,       \* message of the error createSnapshotCommits threw, None if none
    log,           \* the reads of a tip and the ref updates of the call, in order
    target         \* whether the force push was executed and the refs the target has received

vars == <<config, inputs, phase, status, lfsInstall, activeCount, pc, tempDir,
          rmFailed, removed, raised, ret, results, lfsFetch, lfsPush, todo, pushed,
          cnbCalls, createResult, pushAux,
          refs, orig, rpc, branches, cur, commitInfo, newCommitHash, rwError,
          log, target>>

gitVars == <<refs, orig, rpc, branches, cur, commitInfo, newCommitHash, rwError,
             log, target>>

callVars == <<cnbCalls, createResult, pushAux>>

runVars == <<config, inputs, phase, status, lfsInstall>>

\* ---------------------------------------------------------------- helpers
\* the positions of the input list, once the map over it has run
Idx == DOMAIN pc

\* Array.prototype.filter on indices: the subsequence of s at the indices in keep
RECURSIVE FilterIdx(_, _, _)
FilterIdx(s, keep, i) ==
    IF i > Len(s) THEN <<>>
    ELSE (IF i \in keep THEN <<s[i]>> ELSE <<>>) \o FilterIdx(s, keep, i + 1)


\* ------------------------------------------------------------ configuration
\* the lists of repository names: the names of a list differ, and which
\* names they are decides nothing, so there is one list of each length
RepoLists == {[i \in 1..n |-> RepoName(i)] : n \in 0..MaxRepos}

\* The raw inputs of a run.  isArray says whether the YAML of source_repos
\* parses to an array (sourceRepos is that array); "required" whether every
\* input read with {required: true} is present; cnbCreds whether
\* cnb_api_token and cnb_org_path are both non-empty.
Configs ==
    {c \in [isArray : BOOLEAN,
            sourceRepos : RepoLists,
            targetPlatform : Platforms,
            required : BOOLEAN,
            cnbCreds : BOOLEAN,
            maxParallel : MaxParallelValues] :
        /\ c.targetPlatform # "cnb" => ~c.cnbCreds
        /\ ~c.isArray => c.sourceRepos = <<>>}

\* getInputs: the ActionInputs, or the message of the error it throws
getInputs(c) ==
    IF ~c.required THEN [ok |-> FALSE, error |-> "Input required and not supplied"]
    ELSE IF ~c.isArray
        THEN [ok |-> FALSE, error |-> "source_repos must be a YAML array"]
    ELSE IF c.targetPlatform \notin {"cnb", "other"}
        THEN [ok |-> FALSE, error |-> "target_platform must be 'cnb' or 'other'"]
    ELSE [ok |-> TRUE,
          value |-> [sourceRepos |-> c.sourceRepos,
                     targetPlatform |-> c.targetPlatform,
                     cnbCreds |-> c.cnbCreds,
                     maxParallel |-> c.maxParallel]]

\* pLimit(concurrency) throws a TypeError unless concurrency is an integer >= 1
pLimitAccepts(n) == n >= 1

\* ------------------------------------------------------------------- Init
\* no mirror is looked into
NoMirror ==
    /\ refs = <<>>
    /\ orig = <<>>
    /\ rpc = "idle"
    /\ branches = <<>>
    /\ cur = 0
    /\ commitInfo = <<>>
    /\ newCommitHash = <<>>
    /\ rwError = None
    /\ log = <<>>
    /\ target = NoTarget

Init ==
    /\ NoMirror
    /\ config \in Configs
    /\ inputs = NoInputs
    /\ phase = "getInputs"
    /\ status = NoStatus
    /\ lfsInstall = -1
    /\ activeCount = 0
    /\ pc = <<>>
    /\ tempDir = <<>>
    /\ rmFailed = <<>>
    /\ removed = <<>>
    /\ raised = <<>>
    /\ ret = <<>>
    /\ results = <<>>
    /\ lfsFetch = <<>>
    /\ lfsPush = <<>>
    /\ todo = <<>>
    /\ pushed = <<>>
    /\ cnbCalls = <<>>
    /\ createResult = <<>>
    /\ pushAux = <<>>

pipeVars == <<activeCount, pc, tempDir, rmFailed, removed, raised, ret, results,
              lfsFetch, lfsPush, todo, pushed, callVars>>

\* ------------------------------------------------------------------ run()
\* run, line 156: getInputs() returns, or throws into run's catch
GetInputs ==
    /\ phase = "getInputs"
    /\ LET r == getInputs(config) IN
        IF r.ok
        THEN /\ inputs' = r.value
             /\ phase' = "installLfs"
             /\ status' = status
        ELSE /\ inputs' = inputs
             /\ phase' = "aborted"
             /\ status' = [kind |-> "Action failed", message |-> r.error]
    /\ UNCHANGED <<config, lfsInstall, pipeVars>>
    /\ UNCHANGED gitVars

\* how an awaited call ends: it returns, or it throws an Error with a message
Returned == [threw |-> FALSE, msg |-> None]

Threw(m) == [threw |-> TRUE, msg |-> m]

\* (mutant) installLfs treating a non-zero exit of git lfs install as an error
installLfsFatal(installExit, configExit) ==
    IF installExit # 0 THEN Threw("LFS install failed") ELSE Returned

\* installLfs: both commands only warn on a non-zero exit
installLfs(installExit, configExit) == Returned

\* run, lines 164-173: installLfs resolves (both of its commands may exit
\* non-zero, each only warns); then pLimit(maxParallel) and the map that
\* hands every name to limit() run without a suspension point.
InstallLfs ==
    /\ phase = "installLfs"
    /\ \E installExit \in ExitCodes, configExit \in ExitCodes :
        LET out == installLfs(installExit, configExit)
            n == Len(inputs.sourceRepos)
        IN
        /\ lfsInstall' = installExit
        /\ IF ~out.threw /\ pLimitAccepts(inputs.maxParallel)
           THEN /\ phase' = "batch"
                /\ status' = status
                /\ pc' = [i \in 1..n |-> "queued"]
                /\ tempDir' = [i \in 1..n |-> 0]
                /\ removed' = [i \in 1..n |-> 0]
                /\ rmFailed' = [i \in 1..n |-> FALSE]
                /\ raised' = [i \in 1..n |-> None]
                /\ ret' = [i \in 1..n |-> NoResult]
                /\ results' = [i \in 1..n |-> NoResult]
                /\ lfsFetch' = [i \in 1..n |-> -1]
                /\ lfsPush' = [i \in 1..n |-> -1]
                /\ todo' = [i \in 1..n |-> 0]
                /\ pushed' = [i \in 1..n |-> FALSE]
                /\ cnbCalls' = [i \in 1..n |-> 0]
                /\ createResult' = [i \in 1..n |-> NoResult]
                /\ pushAux' = [i \in 1..n |-> -1]
           ELSE /\ phase' = "aborted"
                /\ status' = [kind |-> "Action failed",
                              message |-> IF out.threw THEN out.msg
                                          ELSE "Expected concurrency to be a number from 1 and up"]
                /\ UNCHANGED <<pc, tempDir, rmFailed, removed, raised, ret, results,
                               lfsFetch, lfsPush, todo, pushed, callVars>>
    /\ UNCHANGED <<config, inputs, activeCount>>
    /\ UNCHANGED gitVars


\* ------------------------------------------------------------- syncRepo
\* syncRepo, line 140: the value returned at the end of the try block
SyncSuccess == [success |-> TRUE, error |-> None]

\* syncRepo, lines 142-146: the catch block turns the error into a result
SyncCatch(msg) == [success |-> FALSE, error |-> msg]

\* (mutant) one error slot shared by all pipelines instead of the local catch
PendingResultShared(i) ==
    IF \A j \in DOMAIN raised : raised[j] = None
    THEN SyncSuccess
    ELSE SyncCatch(IF raised[i] # None THEN raised[i]
                   ELSE CHOOSE m \in {raised[j] : j \in DOMAIN raised} : m # None)

\* the value the try/catch has produced when the finally block is entered
PendingResult(i) == IF raised[i] = None THEN SyncSuccess ELSE SyncCatch(raised[i])

\* a step moves on / a step throws inside the try block
Goto(i, next) == /\ pc' = [pc EXCEPT ![i] = next]
                 /\ raised' = raised

Throw(i, msg) == /\ pc' = [pc EXCEPT ![i] = "finally"]
                 /\ raised' = [raised EXCEPT ![i] = msg]

\* (mutant) a failure that is recorded without leaving the try block
StepIgnoringFailure(i, out, next) ==
    /\ pc' = [pc EXCEPT ![i] = next]
    /\ raised' = [raised EXCEPT ![i] = IF out.threw THEN out.msg ELSE @]

Step(i, out, next) == IF out.threw THEN Throw(i, out.msg) ELSE Goto(i, next)

\* ---- git.ts and utils, each as the outcome it makes of the exit statuses
cloneMirror(exitCode) ==
    IF exitCode # 0 THEN Threw("Failed to clone") ELSE Returned

\* (mutant) fetchLfs treating a non-zero exit like cloneMirror does
fetchLfsFatal(exitCode) ==
    IF exitCode # 0 THEN Threw("LFS fetch failed") ELSE Returned

fetchLfs(exitCode) == Returned

listBranches(exitCode) ==
    IF exitCode # 0 THEN Threw("Failed to list branches") ELSE Returned

getCommitInfo(formatExit, messageExit) ==
    IF formatExit # 0 THEN Threw("Failed to get commit info")
    ELSE IF messageExit # 0 THEN Threw("Failed to get commit message")
    ELSE Returned

createOrphanCommit(exitCode) ==
    IF exitCode # 0 THEN Threw("Failed to create orphan commit") ELSE Returned

updateRef(exitCode) ==
    IF exitCode # 0 THEN Threw("Failed to update ref") ELSE Returned

\* (mutant) pushToTarget checking the exit status of git remote add too
pushToTargetStrict(addExit, configExit, pushExit) ==
    IF addExit # 0 THEN Threw("Failed to add remote")
    ELSE IF pushExit # 0 THEN Threw("Failed to push") ELSE Returned

pushToTarget(addExit, configExit, pushExit) ==
    IF pushExit # 0 THEN Threw("Failed to push") ELSE Returned

pushLfs(exitCode) == Returned

\* (mutant) cleanupDir without its try/catch: a failing fs.rm escapes
cleanupDirRethrows(rmOk) ==
    IF rmOk THEN Returned ELSE Threw("EBUSY: rm")

\* cleanupDir: fs.rm inside try/catch, a failure is only a warning
cleanupDir(rmOk) == Returned

\* createCnbRepo: the HTTP response (or a rejected fetch) as a result value
CnbResponses == {"201", "409", "500", "network"}

\* (mutant) createCnbRepo without the branch for status 409
createCnbRepoConflictFatal(resp) ==
    IF resp = "201" THEN [success |-> TRUE, alreadyExists |-> FALSE, error |-> None]
    ELSE IF resp \in {"409", "500"}
        THEN [success |-> FALSE, alreadyExists |-> FALSE, error |-> "HTTP " \o resp]
    ELSE [success |-> FALSE, alreadyExists |-> FALSE, error |-> "TypeError: fetch failed"]

createCnbRepo(resp) ==
    IF resp = "201" THEN [success |-> TRUE, alreadyExists |-> FALSE, error |-> None]
    ELSE IF resp = "409" THEN [success |-> TRUE, alreadyExists |-> TRUE, error |-> None]
    ELSE IF resp = "500" THEN [success |-> FALSE, alreadyExists |-> FALSE, error |-> "HTTP 500"]
    ELSE [success |-> FALSE, alreadyExists |-> FALSE, error |-> "TypeError: fetch failed"]

\* (mutant) a gate that lets one function too many through
CanAdmitOneMore(i) ==
    /\ activeCount <= inputs.maxParallel
    /\ \A j \in 1..(i - 1) : pc[j] # "queued"

\* (mutant) a gate that stops admitting once a pipeline has failed
CanAdmitFailFast(i) ==
    /\ activeCount < inputs.maxParallel
    /\ \A j \in 1..(i - 1) : pc[j] # "queued"
    /\ \A j \in DOMAIN raised : raised[j] = None

\* p-limit's gate: a queued function is started, in queue order, only while
\* fewer than `concurrency` are running
CanAdmit(i) ==
    /\ activeCount < inputs.maxParallel
    /\ \A j \in 1..(i - 1) : pc[j] # "queued"

\* limit(() => syncRepo(repoName, inputs)) starts the function: syncRepo runs
\* up to its first await (getRepoInfo)
Admit(i) ==
    /\ phase = "batch"
    /\ pc[i] = "queued"
    /\ CanAdmit(i)
    /\ activeCount' = activeCount + 1
    /\ Goto(i, "getRepoInfo")
    /\ UNCHANGED <<runVars, tempDir, rmFailed, removed, ret, results,
                   lfsFetch, lfsPush, todo, pushed, callVars>>
    /\ UNCHANGED gitVars

\* (mutant) the creation step entered whatever the platform
NeedsCreateAlways(targetPlatform) == TRUE

\* line 79: if (inputs.targetPlatform === "cnb")
NeedsCreate(targetPlatform) == targetPlatform = "cnb"

\* lines 72-90: getRepoInfo resolves or rejects; on cnb the credentials are
\* checked and the creation call is made
GetRepoInfo(i) ==
    /\ pc[i] = "getRepoInfo"
    /\ \E ok \in BOOLEAN :
        IF ~ok
        THEN /\ Throw(i, "Not Found")
             /\ UNCHANGED cnbCalls
        ELSE IF NeedsCreate(inputs.targetPlatform)
            THEN IF inputs.cnbCreds
                 THEN /\ Goto(i, "createCnbRepo")
                      /\ cnbCalls' = [cnbCalls EXCEPT ![i] = @ + 1]
                 ELSE /\ Throw(i, "cnb_api_token and cnb_org_path are required for CNB platform")
                      /\ UNCHANGED cnbCalls
            ELSE /\ Goto(i, "createTempDir")
                 /\ UNCHANGED cnbCalls
    /\ UNCHANGED <<runVars, activeCount, tempDir, rmFailed, removed, ret, results,
                   lfsFetch, lfsPush, todo, pushed, createResult, pushAux>>
    /\ UNCHANGED gitVars

\* lines 87-103
CreateCnbRepo(i) ==
    /\ pc[i] = "createCnbRepo"
    /\ \E resp \in CnbResponses :
        LET result == createCnbRepo(resp) IN
        /\ createResult' = [createResult EXCEPT ![i] = [resp |-> resp, result |-> result]]
        /\ IF ~result.success
           THEN Throw(i, "Failed to create CNB repo: " \o result.error)
           ELSE Goto(i, "createTempDir")
    /\ UNCHANGED <<runVars, activeCount, tempDir, rmFailed, removed, ret, results,
                   lfsFetch, lfsPush, todo, pushed, cnbCalls, pushAux>>
    /\ UNCHANGED gitVars

\* line 107 and createTempDir: mkdtemp makes a directory no one else has
\* (named here by the pipeline's index) or rejects
CreateTempDir(i) ==
    /\ pc[i] = "createTempDir"
    /\ \E ok \in BOOLEAN :
        IF ok
        THEN /\ tempDir' = [tempDir EXCEPT ![i] = i]
             /\ Goto(i, "cloneMirror")
        ELSE /\ UNCHANGED tempDir
             /\ Throw(i, "ENOSPC: mkdtemp")
    /\ UNCHANGED <<runVars, activeCount, rmFailed, removed, ret, results,
                   lfsFetch, lfsPush, todo, pushed, callVars>>
    /\ UNCHANGED gitVars

\* line 112
CloneMirror(i) ==
    /\ pc[i] = "cloneMirror"
    /\ \E exitCode \in ExitCodes : Step(i, cloneMirror(exitCode), "fetchLfs")
    /\ createResult' = [createResult EXCEPT ![i] = NoResult]
    /\ UNCHANGED <<runVars, activeCount, tempDir, rmFailed, removed, ret, results,
                   lfsFetch, lfsPush, todo, pushed, cnbCalls, pushAux>>
    /\ UNCHANGED gitVars

\* line 115
FetchLfs(i) ==
    /\ pc[i] = "fetchLfs"
    /\ \E exitCode \in ExitCodes :
        /\ lfsFetch' = [lfsFetch EXCEPT ![i] = exitCode]
        /\ Step(i, fetchLfs(exitCode), "listBranches")
    /\ UNCHANGED <<runVars, activeCount, tempDir, rmFailed, removed, ret, results,
                   lfsPush, todo, pushed, callVars>>
    /\ UNCHANGED gitVars

\* line 118, createSnapshotCommits lines 186-189: the branches are listed and
\* the for loop is entered (or skipped when there is no branch)
ListBranches(i) ==
    /\ pc[i] = "listBranches"
    /\ \E exitCode \in ExitCodes, n \in 0..MaxBranches :
        /\ exitCode # 0 => n = 0
        /\ todo' = [todo EXCEPT ![i] = n]
        /\ Step(i, listBranches(exitCode),
                IF n = 0 THEN "pushToTarget" ELSE "getCommitInfo")
    /\ UNCHANGED <<runVars, activeCount, tempDir, rmFailed, removed, ret, results,
                   lfsFetch, lfsPush, pushed, callVars>>
    /\ UNCHANGED gitVars

\* createSnapshotCommits line 190: the two git log commands of getCommitInfo
GetCommitInfo(i) ==
    /\ pc[i] = "getCommitInfo"
    /\ \E formatExit \in ExitCodes, messageExit \in ExitCodes :
        Step(i, getCommitInfo(formatExit, messageExit), "createOrphanCommit")
    /\ UNCHANGED <<runVars, activeCount, tempDir, rmFailed, removed, ret, results,
                   lfsFetch, lfsPush, todo, pushed, callVars>>
    /\ UNCHANGED gitVars

\* createSnapshotCommits line 191
CreateOrphanCommit(i) ==
    /\ pc[i] = "createOrphanCommit"
    /\ \E exitCode \in ExitCodes : Step(i, createOrphanCommit(exitCode), "updateRef")
    /\ UNCHANGED <<runVars, activeCount, tempDir, rmFailed, removed, ret, results,
                   lfsFetch, lfsPush, todo, pushed, callVars>>
    /\ UNCHANGED gitVars

\* createSnapshotCommits lines 194-209: update-ref, then the next branch or
\* the end of the loop
UpdateRef(i) ==
    /\ pc[i] = "updateRef"
    /\ \E exitCode \in ExitCodes :
        LET out == updateRef(exitCode) IN
        /\ todo' = [todo EXCEPT ![i] = IF out.threw THEN @ ELSE @ - 1]
        /\ Step(i, out, IF todo[i] > 1 THEN "getCommitInfo" ELSE "pushToTarget")
    /\ UNCHANGED <<runVars, activeCount, tempDir, rmFailed, removed, ret, results,
                   lfsFetch, lfsPush, pushed, callVars>>
    /\ UNCHANGED gitVars

\* lines 128-134 and pushToTarget: remote add, config, push --force
PushToTarget(i) ==
    /\ pc[i] = "pushToTarget"
    /\ \E addExit \in ExitCodes, configExit \in ExitCodes, pushExit \in ExitCodes :
        /\ Step(i, pushToTarget(addExit, configExit, pushExit), "pushLfs")
        /\ pushAux' = [pushAux EXCEPT ![i] =
                           IF addExit # 0 \/ configExit # 0 THEN 1 ELSE 0]
    /\ pushed' = [pushed EXCEPT ![i] = TRUE]
    /\ UNCHANGED <<runVars, activeCount, tempDir, rmFailed, removed, ret, results,
                   lfsFetch, lfsPush, todo, cnbCalls, createResult>>
    /\ UNCHANGED gitVars

\* lines 137-140: pushLfs, then return {success: true}
PushLfs(i) ==
    /\ pc[i] = "pushLfs"
    /\ \E exitCode \in ExitCodes :
        /\ lfsPush' = [lfsPush EXCEPT ![i] = exitCode]
        /\ Step(i, pushLfs(exitCode), "finally")
    /\ pushAux' = [pushAux EXCEPT ![i] = -1]
    /\ UNCHANGED <<runVars, activeCount, tempDir, rmFailed, removed, ret, results,
                   lfsFetch, todo, pushed, cnbCalls, createResult>>
    /\ UNCHANGED gitVars

\* (mutant) the test of the finally block inverted
NeedsCleanupInverted(td) == td = 0

\* line 148: the finally block calls cleanupDir only for a created workspace
NeedsCleanup(td) == td # 0

\* (mutant) results pushed in completion order
ResultSlotByCompletion(i) == Cardinality({j \in DOMAIN pc : pc[j] = "settled"}) + 1

\* Promise.all over inputs.sourceRepos.map(...): the value of the i-th
\* promise goes to position i of the results
ResultSlot(i) == i

IsRejected(r) == "rejected" \in DOMAIN r

\* what syncRepo's promise settles with: the value of the try/catch, or a
\* rejection if the finally block itself threw
Settlement(i, cleanup) ==
    IF cleanup.threw THEN [rejected |-> cleanup.msg] ELSE PendingResult(i)

\* lines 147-151 and 170-174.  The finally block: cleanupDir(tempDir) for a
\* created workspace, fs.rm succeeding or not.  When it is through, without
\* another suspension point, syncRepo's promise settles, p-limit releases the
\* slot and Promise.all takes the value (a rejection would reject
\* Promise.all and land in run's catch block).  The call is over: what it
\* knew of its commands' exit statuses and of its loop is gone.
Finally(i) ==
    /\ pc[i] = "finally"
    /\ \E rmOk \in BOOLEAN :
        LET cleaning == NeedsCleanup(tempDir[i])
            settled == Settlement(i, IF cleaning THEN cleanupDir(rmOk) ELSE Returned)
        IN /\ ~cleaning => rmOk
           /\ removed' = [removed EXCEPT ![i] = IF cleaning THEN tempDir[i] ELSE @]
           /\ rmFailed' = [rmFailed EXCEPT ![i] = ~rmOk]
           /\ ret' = [ret EXCEPT ![i] = settled]
           /\ IF IsRejected(settled)
              THEN /\ results' = results
                   /\ phase' = IF phase = "batch" THEN "aborted" ELSE phase
                   /\ status' = IF phase = "batch"
                                THEN [kind |-> "Action failed", message |-> settled.rejected]
                                ELSE status
              ELSE /\ results' = [results EXCEPT ![ResultSlot(i)] = settled]
                   /\ UNCHANGED <<phase, status>>
    /\ pc' = [pc EXCEPT ![i] = "settled"]
    /\ activeCount' = activeCount - 1
    /\ lfsFetch' = [lfsFetch EXCEPT ![i] = -1]
    /\ lfsPush' = [lfsPush EXCEPT ![i] = -1]
    /\ todo' = [todo EXCEPT ![i] = 0]
    /\ createResult' = [createResult EXCEPT ![i] = NoResult]
    /\ pushAux' = [pushAux EXCEPT ![i] = -1]
    /\ UNCHANGED <<config, inputs, lfsInstall, tempDir, raised, pushed, cnbCalls>>
    /\ UNCHANGED gitVars

\* ------------------------------------------------- run(): the summary
\* Promise.all resolves when every promise of the map has a value
AllSettled == \A i \in Idx : pc[i] = "settled"

\* (mutant) the filter of the failed names with its test inverted
FailedIdxInverted(res) == {i \in DOMAIN res : res[i].success}

\* lines 183-185: the positions whose result is not a success
FailedIdx(res) == {i \in DOMAIN res : ~res[i].success}

\* lines 177-187: the summary and the failure signal
Summary ==
    /\ phase = "batch"
    /\ AllSettled
    /\ LET failed == Cardinality(FailedIdx(results))
           failedRepos == FilterIdx(inputs.sourceRepos, FailedIdx(results), 1)
       IN status' = IF failed > 0
                    THEN [kind |-> "Failed to sync repos", repos |-> failedRepos]
                    ELSE status
    /\ phase' = "done"
    /\ UNCHANGED <<config, inputs, lfsInstall, pipeVars>>
    /\ UNCHANGED gitVars

\* ------------------------------------------------------------------ Spec
Pipeline(i) ==
    \/ Admit(i)
    \/ GetRepoInfo(i)
    \/ CreateCnbRepo(i)
    \/ CreateTempDir(i)
    \/ CloneMirror(i)
    \/ FetchLfs(i)
    \/ ListBranches(i)
    \/ GetCommitInfo(i)
    \/ CreateOrphanCommit(i)
    \/ UpdateRef(i)
    \/ PushToTarget(i)
    \/ PushLfs(i)
    \/ Finally(i)

Next ==
    \/ GetInputs
    \/ InstallLfs
    \/ \E i \in Idx : Pipeline(i)
    \/ Summary

Spec == Init /\ [][Next]_vars

\* Every step is eventually taken: the event loop runs every continuation
\* that is ready, and every external command and request completes.
FairSpec == Spec /\ WF_vars(Next)

\* ============================================================ SpecRewrite
\* createSnapshotCommits on one bare mirror.  Text (what git prints, what a
\* commit's fields hold) is a sequence of one-character strings; a commit is
\* the record of its contents, which is what its hash identifies.
MaxHeads == 2

LF == "\n"

\* the white space String.prototype.trim removes, of the characters used here
WhiteSpace == {" ", LF}

\* lines[k] of a JavaScript array shorter than k
Undefined == <<"undefined">>

RECURSIVE TrimStart(_)
TrimStart(s) ==
    IF s # <<>> /\ Head(s) \in WhiteSpace THEN TrimStart(Tail(s)) ELSE s

RECURSIVE TrimEnd(_)
TrimEnd(s) ==
    IF s # <<>> /\ s[Len(s)] \in WhiteSpace THEN TrimEnd(SubSeq(s, 1, Len(s) - 1)) ELSE s

\* String.prototype.trim
Trim(s) == TrimEnd(TrimStart(s))

\* position of the first line feed of s, 0 if it has none
IndexOfLF(s) ==
    IF \E i \in 1..Len(s) : s[i] = LF
    THEN CHOOSE i \in 1..Len(s) : s[i] = LF /\ \A j \in 1..(i - 1) : s[j] # LF
    ELSE 0

\* String.prototype.split("\n")
RECURSIVE SplitLF(_)
SplitLF(s) ==
    LET n == IndexOfLF(s) IN
    IF n = 0 THEN <<s>>
    ELSE <<SubSeq(s, 1, n - 1)>> \o SplitLF(SubSeq(s, n + 1, Len(s)))

\* the fields of a format joined by %n
RECURSIVE JoinLF(_)
JoinLF(fields) ==
    IF fields = <<>> THEN <<>>
    ELSE IF Len(fields) = 1 THEN fields[1]
    ELSE fields[1] \o <<LF>> \o JoinLF(Tail(fields))

\* git's pretty-printer starts the body at the first line that is not blank
RECURSIVE SkipBlankLines(_)
SkipBlankLines(s) ==
    LET n == IndexOfLF(s)
        line == IF n = 0 THEN s ELSE SubSeq(s, 1, n - 1)
    IN IF s = <<>> \/ \E i \in 1..Len(line) : line[i] # " " THEN s
       ELSE IF n = 0 THEN <<>>
       ELSE SkipBlankLines(SubSeq(s, n + 1, Len(s)))

\* ---- the commits a branch tip may be
Trees == {<<"1">>, <<"2">>}

Dates == {<<"d">>, <<"D">>}

\* commit messages as stored in the commit object: a one-line message, the
\* multi-line message with a blank line, one without final line feed, one
\* with an indented subject, one with a blank line at its end, the empty one
Messages ==
    {<<"m", LF>>,
     <<"m", LF, LF, "m", LF, "m", LF>>,
     <<"m">>,
     <<" ", "m", LF>>,
     <<"m", LF, LF>>,
     <<>>}

Base ==
    [tree |-> <<"1">>, parents |-> {"p"},
     authorName |-> <<"A">>, authorEmail |-> <<"e">>, authorDate |-> <<"d">>,
     committerName |-> <<"B">>, committerEmail |-> <<"f">>, committerDate |-> <<"D">>,
     message |-> <<"m", LF>>]

\* Base with one of its parts varied
Tips ==
    {[Base EXCEPT !.tree = t] : t \in Trees}
    \cup {[Base EXCEPT !.parents = {}]}
    \cup {[Base EXCEPT !.authorName = n, !.authorEmail = e] :
            n \in {<<>>, <<"A">>}, e \in {<<>>, <<"e">>}}
    \cup {[Base EXCEPT !.committerName = n, !.committerEmail = e] :
            n \in {<<>>, <<"B">>}, e \in {<<>>, <<"f">>}}
    \cup {[Base EXCEPT !.message = m] : m \in Messages}

TagTips == {Base, [Base EXCEPT !.tree = <<"2">>]}

HeadRef(k) == [ns |-> "heads", name |-> k]

TagRef == [ns |-> "tags", name |-> 1]

\* ---- what git prints
\* git log -1 --format=%an%n%ae%n%aI%n%cn%n%ce%n%cI%n%T
LogFormat(c) ==
    JoinLF(<<c.authorName, c.authorEmail, c.authorDate,
             c.committerName, c.committerEmail, c.committerDate, c.tree>>) \o <<LF>>

\* git log -1 --format=%B
LogBody(c) == SkipBlankLines(c.message) \o <<LF>>

\* getCommitInfo, lines 130 and 142-151
ParseCommitInfo(formatOut, messageOut) ==
    LET lines == SplitLF(Trim(formatOut))
        at(k) == IF k <= Len(lines) THEN lines[k] ELSE Undefined
    IN [authorName |-> at(1), authorEmail |-> at(2), authorDate |-> at(3),
        committerName |-> at(4), committerEmail |-> at(5), committerDate |-> at(6),
        tree |-> at(7), message |-> Trim(messageOut)]

\* git commit-tree <tree> -m <message> with the identity in the environment:
\* the tree must name a tree, neither name may be empty, the dates must parse
CommitTreeAccepts(ci) ==
    /\ ci.tree \in Trees
    /\ ci.authorName \notin {<<>>, Undefined}
    /\ ci.committerName \notin {<<>>, Undefined}
    /\ ci.authorEmail # Undefined
    /\ ci.committerEmail # Undefined
    /\ ci.authorDate \in Dates
    /\ ci.committerDate \in Dates

\* -m <message>: git ends the message with a line feed if it is not empty
CompleteLine(m) == IF m # <<>> /\ m[Len(m)] # LF THEN m \o <<LF>> ELSE m

\* createOrphanCommit, lines 158-171: the commit object commit-tree writes
CommitTree(ci) ==
    [tree |-> ci.tree, parents |-> {},
     authorName |-> ci.authorName, authorEmail |-> ci.authorEmail,
     authorDate |-> ci.authorDate,
     committerName |-> ci.committerName, committerEmail |-> ci.committerEmail,
     committerDate |-> ci.committerDate,
     message |-> CompleteLine(ci.message)]

\* (mutant) for-each-ref over every ref instead of refs/heads/
HeadsAllRefs(rs) == DOMAIN rs

\* listBranches, lines 79-97: for-each-ref refs/heads/, in refname order
Heads(rs) == {r \in DOMAIN rs : r.ns = "heads"}

\* refname order: refs/heads/... sorts before refs/tags/...
RefBefore(x, q) ==
    \/ x.ns = "heads" /\ q.ns = "tags"
    \/ x.ns = q.ns /\ x.name < q.name

BranchList(rs) ==
    [k \in 1..Cardinality(Heads(rs)) |->
        LET r == CHOOSE q \in Heads(rs) :
                    Cardinality({x \in Heads(rs) : RefBefore(x, q)}) = k - 1
        IN [name |-> r.name, ref |-> r]]

\* (mutant) a loop that does not advance to the next branch
NextBranchSame(k) == k

\* line 189: for (const branch of branches), the next element
NextBranch(k) == k + 1

\* pushToTarget, line 231: refs/heads/*:refs/heads/* refs/tags/*:refs/tags/*
PushRefspec(rs) == {r \in DOMAIN rs : r.ns \in {"heads", "tags"}}

\* the refs a target holds that took the refs in sent from rs
Received(rs, sent) == [pushes |-> 1, refs |-> [r \in sent |-> rs[r]]]

\* (mutant) update-ref given the old tip instead of the new commit
UpdateRefTargetOld(old, new) == old

\* createSnapshotCommits, line 195: update-ref <ref> <newCommitHash>
UpdateRefTarget(old, new) == new

\* ---- the state machine
batchIdle ==
    /\ config = [isArray |-> TRUE, sourceRepos |-> <<>>, targetPlatform |-> "other",
                 required |-> TRUE, cnbCreds |-> FALSE, maxParallel |-> 1]
    /\ inputs = NoInputs
    /\ phase = "none"
    /\ status = NoStatus
    /\ lfsInstall = -1
    /\ activeCount = 0
    /\ pc = <<>>
    /\ tempDir = <<>>
    /\ rmFailed = <<>>
    /\ removed = <<>>
    /\ raised = <<>>
    /\ ret = <<>>
    /\ results = <<>>
    /\ lfsFetch = <<>>
    /\ lfsPush = <<>>
    /\ todo = <<>>
    /\ pushed = <<>>
    /\ cnbCalls = <<>>
    /\ createResult = <<>>
    /\ pushAux = <<>>

batchVars == <<runVars, pipeVars>>

\* a mirror with up to MaxHeads branches and possibly a tag, as cloned
InitRewrite ==
    /\ batchIdle
    /\ \E n \in 0..MaxHeads, tagged \in BOOLEAN :
        LET names == {HeadRef(k) : k \in 1..n} \cup (IF tagged THEN {TagRef} ELSE {})
        IN /\ refs \in [names -> Tips]
           /\ tagged => refs[TagRef] \in TagTips
    /\ orig = refs
    /\ rpc = "listBranches"
    /\ branches = <<>>
    /\ cur = 0
    /\ commitInfo = <<>>
    /\ newCommitHash = <<>>
    /\ rwError = None
    /\ log = <<>>
    /\ target = NoTarget

\* (mutant) an error of the loop that is kept but does not stop syncRepo
\* before the push
RwFailPushesAnyway(msg) ==
    /\ rpc' = "done"
    /\ rwError' = msg

\* a throw: createSnapshotCommits (or pushToTarget) is left for syncRepo's catch
RwFail(msg) ==
    /\ rpc' = "failed"
    /\ rwError' = msg

\* the value syncRepo's try/catch makes of the call
RwResult == IF rwError = None THEN SyncSuccess ELSE SyncCatch(rwError)

\* createSnapshotCommits, lines 186-189
RwListBranches ==
    /\ rpc = "listBranches"
    /\ \E exitCode \in ExitCodes :
        LET out == listBranches(exitCode) IN
        IF out.threw
        THEN /\ RwFail(out.msg)
             /\ UNCHANGED <<branches, cur>>
        ELSE /\ branches' = BranchList(refs)
             /\ cur' = 1
             /\ rpc' = IF BranchList(refs) = <<>> THEN "done" ELSE "getCommitInfo"
             /\ rwError' = rwError
    /\ UNCHANGED <<refs, orig, commitInfo, newCommitHash, log, target, batchVars>>

\* line 190 and getCommitInfo: both git log commands read the branch's tip
RwGetCommitInfo ==
    /\ rpc = "getCommitInfo"
    /\ \E formatExit \in ExitCodes, messageExit \in ExitCodes :
        LET out == getCommitInfo(formatExit, messageExit)
            tip == refs[branches[cur].ref]
        IN /\ log' = Append(log, [op |-> "read", ref |-> branches[cur].ref])
           /\ IF out.threw
              THEN /\ RwFail(out.msg)
                   /\ commitInfo' = commitInfo
              ELSE /\ commitInfo' = ParseCommitInfo(LogFormat(tip), LogBody(tip))
                   /\ rpc' = "createOrphanCommit"
                   /\ rwError' = rwError
    /\ UNCHANGED <<refs, orig, branches, cur, newCommitHash, target, batchVars>>

\* line 191 and createOrphanCommit
RwCreateOrphanCommit ==
    /\ rpc = "createOrphanCommit"
    /\ \E exitCode \in ExitCodes :
        LET out == createOrphanCommit(IF CommitTreeAccepts(commitInfo) THEN exitCode ELSE 1)
        IN IF out.threw
           THEN /\ RwFail(out.msg)
                /\ newCommitHash' = newCommitHash
           ELSE /\ newCommitHash' = CommitTree(commitInfo)
                /\ rpc' = "updateRef"
                /\ rwError' = rwError
    /\ UNCHANGED <<refs, orig, branches, cur, commitInfo, log, target, batchVars>>

\* lines 194-209: update-ref, then the next branch
RwUpdateRef ==
    /\ rpc = "updateRef"
    /\ \E exitCode \in ExitCodes :
        LET out == updateRef(exitCode)
            ref == branches[cur].ref
        IN IF out.threw
           THEN /\ RwFail(out.msg)
                /\ UNCHANGED <<refs, cur, log>>
           ELSE /\ refs' = [refs EXCEPT ![ref] = UpdateRefTarget(refs[ref], newCommitHash)]
                /\ log' = Append(log, [op |-> "update", ref |-> ref])
                /\ cur' = NextBranch(cur)
                /\ rpc' = IF NextBranch(cur) <= Len(branches) THEN "getCommitInfo" ELSE "done"
                /\ rwError' = rwError
    /\ UNCHANGED <<orig, branches, commitInfo, newCommitHash, target, batchVars>>

\* syncRepo, lines 118-134: createSnapshotCommits has returned and
\* pushToTarget force-pushes the branches and the tags.  A push that exits
\* non-zero may have left any of the refs on the target.
RwPushToTarget ==
    /\ rpc = "done"
    /\ \E addExit \in ExitCodes, configExit \in ExitCodes, pushExit \in ExitCodes :
        LET out == pushToTarget(addExit, configExit, pushExit) IN
        IF out.threw
        THEN /\ RwFail(out.msg)
             /\ \E sent \in SUBSET PushRefspec(refs) : target' = Received(refs, sent)
        ELSE /\ target' = Received(refs, PushRefspec(refs))
             /\ rpc' = "pushed"
             /\ rwError' = rwError
    /\ UNCHANGED <<refs, orig, branches, cur, commitInfo, newCommitHash, log, batchVars>>

NextRewrite ==
    \/ RwListBranches
    \/ RwGetCommitInfo
    \/ RwCreateOrphanCommit
    \/ RwUpdateRef
    \/ RwPushToTarget

SpecRewrite == InitRewrite /\ [][NextRewrite]_vars

\* ------------------------------------------------------------ properties
IsResult(r) == DOMAIN r = {"success", "error"}

Returning == {"settled"}

InFlight == {i \in Idx : pc[i] \notin {"queued", "settled"}}

\* the messages of the errors the fatal steps throw
FatalMessages ==
    {"Not Found",
     "cnb_api_token and cnb_org_path are required for CNB platform",
     "Failed to create CNB repo: HTTP 500",
     "Failed to create CNB repo: TypeError: fetch failed",
     "ENOSPC: mkdtemp", "Failed to clone", "Failed to list branches",
     "Failed to get commit info", "Failed to get commit message",
     "Failed to create orphan commit", "Failed to update ref", "Failed to push"}

\* C1: syncRepo never raises.  Whatever its steps did, its promise settles
\* with a result value, never with a rejection; when a step threw, the result
\* is success=false with that error's message; and run's catch block is never
\* entered on behalf of a pipeline (an aborted run has started none).
C1_SyncRepoNeverRaises ==
    /\ \A i \in Idx :
        pc[i] \in Returning =>
            /\ IsResult(ret[i])
            /\ raised[i] # None =>
                 ret[i] = [success |-> FALSE, error |-> raised[i]]
    /\ status.kind = "Action failed" => Idx = {}

\* a pipeline whose push threw and whose cleanup failed too has returned
C1_Witness ==
    \E i \in Idx : /\ pc[i] = "settled"
                   /\ raised[i] = "Failed to push"
                   /\ rmFailed[i]
                   /\ ret[i] = [success |-> FALSE, error |-> "Failed to push"]

\* C2: at most maxParallel pipelines have started and not yet delivered their
\* result, in every reachable state; p-limit's count is that number.
C2_CeilingRespected ==
    phase # "getInputs" /\ Idx # {} =>
        /\ Cardinality(InFlight) <= inputs.maxParallel
        /\ activeCount = Cardinality(InFlight)

\* the gate is closed: a pipeline waits while maxParallel others are running
C2_Witness ==
    /\ Idx # {}
    /\ Cardinality(InFlight) = inputs.maxParallel
    /\ \E i \in Idx : pc[i] = "queued"
    /\ \E i \in Idx : pc[i] = "cloneMirror"

\* C3: no fail-fast.  Once the batch has started, every repository of the
\* list is eventually started and reaches a result, whatever the others did,
\* and the summary is computed only after all of them have a result.
C3_AllAttempted ==
    /\ (phase = "batch") ~> (phase = "done")
    /\ [](phase = "done" =>
            \A i \in Idx : pc[i] = "settled" /\ IsResult(results[i]))

\* the summary was computed after a failure of the first repository and a
\* success of a later one
C3_Witness ==
    /\ phase = "done"
    /\ Len(results) >= 2
    /\ ~results[1].success
    /\ results[Len(results)].success

\* the failures of a repository's source: it does not exist or cannot be cloned
SourceFailures == {"Not Found", "Failed to clone"}

\* C4: isolation.  When the batch is over, exactly one repository had a
\* failing source and no step of any other repository threw, the result list
\* is as long as the input and its only success=false entry is that
\* repository's.
C4_Isolation ==
    LET bad == {i \in Idx : raised[i] \in SourceFailures} IN
    (/\ phase = "done"
     /\ Cardinality(bad) = 1
     /\ \A i \in Idx \ bad : raised[i] = None)
    => /\ Len(results) = Len(inputs.sourceRepos)
       /\ \A i \in Idx : results[i].success = (i \notin bad)
       /\ Cardinality({i \in Idx : ~results[i].success}) = 1

\* the last repository of the list could not be cloned, an earlier one succeeded
C4_Witness ==
    /\ phase = "done"
    /\ Len(results) >= 2
    /\ raised[Len(results)] = "Failed to clone"
    /\ \A i \in 1..(Len(results) - 1) : raised[i] = None /\ results[i].success

C6_GuaranteedCleanup ==
    \A i \in Idx :
        /\ pc[i] \in Returning =>
            /\ removed[i] = tempDir[i]
            /\ tempDir[i] # 0 <=>
                 raised[i] \notin {"Not Found",
                     "cnb_api_token and cnb_org_path are required for CNB platform",
                     "Failed to create CNB repo: HTTP 500",
                     "Failed to create CNB repo: TypeError: fetch failed",
                     "ENOSPC: mkdtemp"}
            /\ ret[i] = IF raised[i] = None
                        THEN [success |-> TRUE, error |-> None]
                        ELSE [success |-> FALSE, error |-> raised[i]]
        /\ pc[i] \notin Returning => removed[i] = 0
        /\ results[i] # NoResult => removed[i] = tempDir[i]

\* a pipeline whose clone failed has had its workspace cleaned up, the
\* removal failing
C6_Witness ==
    \E i \in Idx : /\ pc[i] = "settled"
                   /\ raised[i] = "Failed to clone"
                   /\ tempDir[i] # 0
                   /\ removed[i] = tempDir[i]
                   /\ rmFailed[i]

\* C7: tree preservation.  When createSnapshotCommits has returned, every
\* branch ref points to a commit without parent whose tree is the tree of the
\* commit the branch pointed to before the call.
C7_TreePreservation ==
    rpc = "done" =>
        \A r \in Heads(refs) :
            /\ refs[r].parents = {}
            /\ refs[r].tree = orig[r].tree

\* two branches that shared one tip, a commit with a parent, were rewritten
C7_Witness ==
    /\ rpc = "done"
    /\ Cardinality(Heads(refs)) = 2
    /\ orig[HeadRef(1)] = orig[HeadRef(2)]
    /\ orig[HeadRef(1)].parents # {}
    /\ refs[HeadRef(1)].parents = {}

\* C8: metadata replay.  When createSnapshotCommits has returned, the commit
\* of every branch has the author name, email and date, the committer name,
\* email and date and the message of the commit the branch pointed to before
\* the call, the message character for character.
C8_MetadataReplay ==
    rpc = "done" =>
        \A r \in Heads(refs) :
            /\ refs[r].authorName = orig[r].authorName
            /\ refs[r].authorEmail = orig[r].authorEmail
            /\ refs[r].authorDate = orig[r].authorDate
            /\ refs[r].committerName = orig[r].committerName
            /\ refs[r].committerEmail = orig[r].committerEmail
            /\ refs[r].committerDate = orig[r].committerDate
            /\ refs[r].message = orig[r].message

\* C9: the large-object steps are best effort.  No pipeline ever fails with
\* an error of the LFS fetch or the LFS push: after an LFS fetch, whatever its
\* exit status, the pipeline is at the rewrite or beyond it and has failed
\* only if a later fatal step threw; an LFS push, whatever its exit status,
\* comes after the push and leaves the try block without error; and the
\* result of a pipeline whose LFS commands exited non-zero is success=true
\* unless a fatal step threw.
C9_LfsBestEffort ==
    /\ [](\A i \in Idx :
            /\ raised[i] \in FatalMessages \cup {None}
            /\ lfsFetch[i] # -1 =>
                 /\ pc[i] \in {"listBranches", "getCommitInfo", "createOrphanCommit",
                               "updateRef", "pushToTarget", "pushLfs", "finally"}
                 /\ raised[i] \in {None, "Failed to list branches",
                                   "Failed to get commit info",
                                   "Failed to get commit message",
                                   "Failed to create orphan commit",
                                   "Failed to update ref", "Failed to push"}
            /\ lfsPush[i] # -1 =>
                 pc[i] = "finally" /\ raised[i] = None /\ pushed[i])
    /\ [][\A i \in Idx :
            (pc[i] = "finally" /\ pc'[i] = "settled" /\ raised[i] = None
                /\ (lfsFetch[i] = 1 \/ lfsPush[i] = 1))
            => ret'[i] = [success |-> TRUE, error |-> None]]_vars

\* a pipeline has left the try block without error, its push done, although
\* both of its LFS commands exited 1
C9_Witness ==
    \E i \in Idx : /\ pc[i] = "finally"
                   /\ lfsFetch[i] = 1
                   /\ lfsPush[i] = 1
                   /\ pushed[i]
                   /\ raised[i] = None

\* C10: when the batch is over, the run is marked failed if and only if some
\* repository's result is success=false, and the failure names the
\* repositories at the failed positions, in input order, and no other.
C10_FinalStatus ==
    LET failedAt == {i \in Idx : ~results[i].success} IN
    /\ phase = "done" =>
        /\ status # NoStatus <=> failedAt # {}
        /\ status # NoStatus =>
            /\ status.kind = "Failed to sync repos"
            /\ Len(status.repos) = Cardinality(failedAt)
            /\ \A k \in 1..Len(status.repos) :
                 \E i \in failedAt :
                    /\ status.repos[k] = inputs.sourceRepos[i]
                    /\ Cardinality({j \in failedAt : j < i}) = k - 1
    /\ status.kind = "Failed to sync repos" => phase = "done"

\* of two repositories with different names the second failed and the first
\* succeeded, and the failure names the second only
C10_Witness ==
    /\ phase = "done"
    /\ Len(results) = 2
    /\ inputs.sourceRepos = <<"repo1", "repo2">>
    /\ results[1].success
    /\ ~results[2].success
    /\ status = [kind |-> "Failed to sync repos", repos |-> <<"repo2">>]


\* the steps of a pipeline in the order of syncRepo's statements; the three
\* calls of the for loop of createSnapshotCommits are one step, the rewrite
StepRank(p) ==
    CASE p = "queued" -> 0
      [] p = "getRepoInfo" -> 1
      [] p = "createCnbRepo" -> 2
      [] p = "createTempDir" -> 3
      [] p = "cloneMirror" -> 4
      [] p = "fetchLfs" -> 5
      [] p \in {"listBranches", "getCommitInfo", "createOrphanCommit", "updateRef"} -> 6
      [] p = "pushToTarget" -> 7
      [] p = "pushLfs" -> 8
      [] p = "finally" -> 9
      [] p = "settled" -> 10

\* C11: within one repository the steps run in the order metadata fetch,
\* ensure target, clone, LFS fetch, rewrite, push, LFS push.  A pipeline is
\* at one step at a time and a step that completes hands over to a later
\* step (the rewrite to itself or later), never to an earlier one; the step
\* in which an error is thrown is the last one: the pipeline is then in its
\* finally block or done, and nothing was pushed unless it was the push that
\* failed.
C11_StrictStepOrder ==
    /\ [](\A i \in Idx :
            /\ raised[i] # None => pc[i] \in {"finally", "settled"}
            /\ pushed[i] => raised[i] \in {None, "Failed to push"})
    /\ [][\A i \in Idx :
            pc'[i] # pc[i] =>
                /\ \/ StepRank(pc'[i]) > StepRank(pc[i])
                   \/ StepRank(pc'[i]) = 6 /\ StepRank(pc[i]) = 6
                /\ pc[i] # "finally" => raised[i] = None
                /\ raised'[i] # None => pc'[i] \in {"finally", "settled"}
                /\ (raised'[i] = None /\ pc[i] = "cloneMirror") => pc'[i] = "fetchLfs"
                /\ (raised'[i] = None /\ pc[i] = "fetchLfs") => pc'[i] = "listBranches"
                /\ (raised'[i] = None /\ pc[i] = "pushToTarget") => pc'[i] = "pushLfs"
                /\ pc'[i] = "pushToTarget" =>
                        pc[i] \in {"listBranches", "updateRef"}]_vars

\* a pipeline whose rewrite failed at update-ref is in its finally block,
\* nothing pushed
C11_Witness ==
    \E i \in Idx : /\ pc[i] = "finally"
                   /\ raised[i] = "Failed to update ref"
                   /\ lfsFetch[i] = 0
                   /\ ~pushed[i]

\* C12: a configuration error aborts the run before any pipeline starts.
\* When a required input is missing, source_repos is no array, the platform
\* is unknown, max_parallel is no positive integer, or the platform is cnb
\* and the API token or the organization path is absent, no pipeline is ever
\* started: none gets as far as its metadata fetch.
C12_ConfigErrorsAbort ==
    (\/ ~getInputs(config).ok
     \/ ~pLimitAccepts(config.maxParallel)
     \/ config.targetPlatform = "cnb" /\ ~config.cnbCreds)
    => \A i \in Idx : pc[i] = "queued"

\* C13: already-exists is success.  The creation call that gets the
\* conflict response returns {success: true, alreadyExists: true}; after it,
\* as after a creation, the pipeline goes on to make its workspace and to
\* clone, no error raised by the creation step; the pipeline fails at the
\* creation step exactly when the response is neither.
C13_AlreadyExistsIsSuccess ==
    /\ [](\A i \in Idx : createResult[i] # NoResult =>
            LET r == createResult[i] IN
            /\ r.resp = "409" =>
                 r.result = [success |-> TRUE, alreadyExists |-> TRUE, error |-> None]
            /\ r.resp \in {"201", "409"} =>
                 /\ raised[i] \in {None, "ENOSPC: mkdtemp"}
                 /\ pc[i] \in {"createTempDir", "cloneMirror", "finally"}
            /\ r.resp \notin {"201", "409"} =>
                 /\ pc[i] = "finally"
                 /\ raised[i] \in {"Failed to create CNB repo: HTTP 500",
                                   "Failed to create CNB repo: TypeError: fetch failed"})
    /\ [][\A i \in Idx :
            (pc[i] = "createCnbRepo" /\ pc'[i] # pc[i]) =>
                /\ createResult'[i] # NoResult
                /\ createResult'[i].resp \in {"201", "409"} =>
                     pc'[i] = "createTempDir" /\ raised'[i] = None]_vars

\* a pipeline that got the conflict response is cloning
C13_Witness ==
    \E i \in Idx : /\ createResult[i] # NoResult
                   /\ createResult[i].resp = "409"
                   /\ pc[i] = "cloneMirror"
                   /\ tempDir[i] # 0

\* C14: a failure of a sub-step of a branch (reading the metadata, making
\* the orphan commit, updating the ref) aborts createSnapshotCommits at once.
\* The failing branch and every later one keep their tips and no later
\* branch is read or updated; the call has thrown, syncRepo's result is a
\* failure and the target has received nothing.  What the target receives
\* comes from a mirror in which every branch was rewritten.
C14_BranchFailureAborts ==
    /\ rwError \in {"Failed to get commit info", "Failed to get commit message",
                    "Failed to create orphan commit", "Failed to update ref"} =>
        /\ rpc = "failed"
        /\ ~RwResult.success
        /\ target.pushes = 0
        /\ \A k \in cur..Len(branches) : refs[branches[k].ref] = orig[branches[k].ref]
        /\ \A k \in (cur + 1)..Len(branches) :
                \A n \in 1..Len(log) : log[n].ref # branches[k].ref
    /\ target.pushes # 0 =>
        \A h \in Heads(orig) : \E n \in 1..Len(log) : log[n] = [op |-> "update", ref |-> h]

\* the second of two branches failed at update-ref after the first was
\* rewritten; nothing is pushed
C14_Witness ==
    /\ rwError = "Failed to update ref"
    /\ Len(branches) = 2
    /\ cur = 2
    /\ refs[branches[1].ref] # orig[branches[1].ref]
    /\ target.pushes = 0

\* C15, as claimed: commit metadata is captured before any mutation of the
\* mirror and never re-read.  Every read of a branch tip's metadata comes
\* before the first ref update of the call, and no branch is read twice.
C15_CapturedBeforeAnyMutation ==
    \A n \in 1..Len(log) : log[n].op = "read" =>
        /\ \A m \in 1..(n - 1) : log[m].op # "update"
        /\ \A m \in 1..(n - 1) : log[m] # log[n]

\* C15, amended: the metadata of a branch is captured before that branch's
\* ref is updated and never re-read.  No branch is read twice, a branch is
\* read before anything was done to its ref, a ref is updated only after its
\* tip was read, and what the iteration holds is the metadata of the tip the
\* branch had when the call began.
C15_CapturedBeforeOwnMutation ==
    /\ \A n \in 1..Len(log) : log[n].op = "read" =>
            \A m \in 1..(n - 1) : log[m].ref # log[n].ref
    /\ \A n \in 1..Len(log) : log[n].op = "update" =>
            \E m \in 1..(n - 1) : log[m] = [op |-> "read", ref |-> log[n].ref]
    /\ rpc \in {"createOrphanCommit", "updateRef"} =>
            LET tip == orig[branches[cur].ref]
            IN commitInfo = ParseCommitInfo(LogFormat(tip), LogBody(tip))

\* two branches were rewritten: the second was read after the first's ref
\* had been updated
C15_Witness ==
    /\ rpc = "done"
    /\ Len(log) = 4
    /\ log[2].op = "update"
    /\ log[3].op = "read"
    /\ log[3].ref # log[2].ref

\* C16: tags are not rewritten.  createSnapshotCommits updates refs under
\* refs/heads/ only: at every point of the call, and after it whether it
\* returned or threw, every other ref points to the commit it pointed to
\* when the call began and no ref was added or removed; the tags the target
\* receives are the tags as cloned, and a push that succeeds has sent them all.
C16_TagsNotRewritten ==
    /\ DOMAIN refs = DOMAIN orig
    /\ \A r \in DOMAIN refs : r.ns # "heads" => refs[r] = orig[r]
    /\ \A n \in 1..Len(log) : log[n].op = "update" => log[n].ref.ns = "heads"
    /\ \A r \in DOMAIN target.refs : r.ns = "tags" => target.refs[r] = orig[r]
    /\ rpc = "pushed" =>
        \A r \in DOMAIN orig : r.ns = "tags" => r \in DOMAIN target.refs

\* a mirror with a tag and a branch was rewritten and pushed: the branch has
\* a new tip, the target has the tag with its history
C16_Witness ==
    /\ rpc = "pushed"
    /\ TagRef \in DOMAIN orig
    /\ \E h \in Heads(orig) : refs[h] # orig[h] /\ target.refs[h] = refs[h]
    /\ target.refs[TagRef] = orig[TagRef]
    /\ target.refs[TagRef].parents # {}

\* C17: the installation of the large-object support is through, with exit
\* status zero or not, before any pipeline starts, hence before any LFS fetch
\* or LFS push.  An installation that fails is not fatal: unless max_parallel
\* is rejected the batch is entered with one pipeline per name, the run is not
\* aborted, and when it ends every repository was attempted and has its result.
C17_InstallBeforePipelines ==
    /\ \A i \in Idx : pc[i] # "queued" => lfsInstall \in ExitCodes
    /\ \A i \in Idx : (lfsFetch[i] # -1 \/ lfsPush[i] # -1) => lfsInstall \in ExitCodes
    /\ phase \in {"getInputs", "installLfs"} => lfsInstall = -1 /\ pc = <<>>
    /\ (lfsInstall = 1 /\ pLimitAccepts(inputs.maxParallel)) =>
        /\ phase \in {"batch", "done"}
        /\ status.kind # "Action failed"
        /\ Len(pc) = Len(inputs.sourceRepos)
        /\ phase = "done" => \A i \in Idx : pc[i] = "settled" /\ IsResult(results[i])

\* git lfs install exited non-zero and the run ended with every repository
\* synced
C17_Witness ==
    /\ lfsInstall = 1
    /\ phase = "done"
    /\ Len(results) = 2
    /\ \A i \in Idx : results[i].success /\ pushed[i]

\* C18: the ensure-target step is entered only on cnb.  With platform other
\* no pipeline makes a creation call or fails for the sake of one, and a
\* metadata fetch that succeeds is followed by the workspace creation.  With
\* cnb a pipeline makes at most one creation call; it makes it when its
\* metadata fetch has succeeded (the credentials being there), and has made
\* it before it has a workspace to clone into.
C18_EnsureTargetOnlyOnCnb ==
    /\ [](\A i \in Idx :
            /\ inputs.targetPlatform = "other" =>
                /\ cnbCalls[i] = 0
                /\ pc[i] # "createCnbRepo"
                /\ createResult[i] = NoResult
                /\ raised[i] \notin
                     {"cnb_api_token and cnb_org_path are required for CNB platform",
                      "Failed to create CNB repo: HTTP 500",
                      "Failed to create CNB repo: TypeError: fetch failed"}
            /\ inputs.targetPlatform = "cnb" =>
                /\ cnbCalls[i] \in {0, 1}
                /\ cnbCalls[i] = 1 <=>
                     /\ pc[i] \notin {"queued", "getRepoInfo"}
                     /\ raised[i] \notin
                          {"Not Found",
                           "cnb_api_token and cnb_org_path are required for CNB platform"}
                /\ (tempDir[i] # 0 \/ StepRank(pc[i]) \in 3..8) => cnbCalls[i] = 1)
    /\ [][\A i \in Idx :
            /\ cnbCalls'[i] # cnbCalls[i] =>
                 pc[i] = "getRepoInfo" /\ pc'[i] = "createCnbRepo"
            /\ (pc[i] = "getRepoInfo" /\ pc'[i] # pc[i] /\ raised'[i] = None) =>
                 pc'[i] = IF inputs.targetPlatform = "other"
                          THEN "createTempDir" ELSE "createCnbRepo"]_vars

\* on platform other a pipeline is cloning, no creation call made
C18_Witness ==
    \E i \in Idx : /\ inputs.targetPlatform = "other"
                   /\ pc[i] = "cloneMirror"
                   /\ cnbCalls[i] = 0

\* the errors each step of syncRepo can throw: the LFS steps throw none
StepFailures(p) ==
    CASE p = "getRepoInfo" ->
            {"Not Found", "cnb_api_token and cnb_org_path are required for CNB platform"}
      [] p = "createCnbRepo" ->
            {"Failed to create CNB repo: HTTP 500",
             "Failed to create CNB repo: TypeError: fetch failed"}
      [] p = "createTempDir" -> {"ENOSPC: mkdtemp"}
      [] p = "cloneMirror" -> {"Failed to clone"}
      [] p = "listBranches" -> {"Failed to list branches"}
      [] p = "getCommitInfo" -> {"Failed to get commit info", "Failed to get commit message"}
      [] p = "createOrphanCommit" -> {"Failed to create orphan commit"}
      [] p = "updateRef" -> {"Failed to update ref"}
      [] p = "pushToTarget" -> {"Failed to push"}
      [] OTHER -> {}

\* C19: a repository's result is success = true exactly when all its
\* critical steps succeeded.  A result is a success exactly when no step
\* threw, and then the metadata was fetched, the target provisioned (on cnb),
\* the workspace made and the force push executed; a step throws only an
\* error of its own, the LFS fetch and the LFS push throw none, and
\* pushToTarget throws only for the push itself: after a non-zero exit of
\* remote add or config, or of the LFS fetch, the pipeline is at its next
\* step with no error.  The result made at the end is the same whatever the
\* LFS steps' exit statuses were and whether or not the cleanup failed.
C19_SuccessIffCriticalSteps ==
    /\ [](\A i \in Idx :
            /\ pc[i] = "settled" =>
                /\ IsResult(ret[i])
                /\ ret[i].success <=> raised[i] = None
                /\ raised[i] \in FatalMessages \cup {None}
                /\ ret[i].success =>
                     /\ pushed[i]
                     /\ tempDir[i] # 0
                     /\ inputs.targetPlatform = "cnb" => cnbCalls[i] = 1
            /\ pc[i] = "pushLfs" => raised[i] = None /\ pushed[i] /\ pushAux[i] \in {0, 1}
            /\ pc[i] = "listBranches" => raised[i] = None /\ lfsFetch[i] \in {0, 1})
    /\ [][\A i \in Idx :
            /\ (raised[i] = None /\ raised'[i] # None) => raised'[i] \in StepFailures(pc[i])
            /\ (pc[i] = "finally" /\ pc'[i] = "settled") =>
                 ret'[i] = IF raised[i] = None THEN SyncSuccess ELSE SyncCatch(raised[i])]_vars

\* one pipeline has returned success although its cleanup failed; the other
\* is at its LFS push after git remote add or git config and the LFS fetch
\* exited non-zero
C19_Witness ==
    \E i \in Idx, j \in Idx :
        /\ pc[i] = "settled"
        /\ ret[i] = SyncSuccess
        /\ rmFailed[i]
        /\ pc[j] = "pushLfs"
        /\ pushAux[j] = 1
        /\ lfsFetch[j] = 1
        /\ raised[j] = None

=============================================================================
